---- MODULE Spec2Model ----
(***************************************************************************)
(* A model of charmlibs.pathops.ContainerPath: a path object that holds a  *)
(* pure POSIX path and a reference to a container (the remote endpoint),   *)
(* and whose filesystem methods call the endpoint (pull, push, list_files, *)
(* make_dir, and the metadata lookup of _fileinfo.from_container_path) and *)
(* translate its errors into Python's OSError family.                      *)
(*                                                                         *)
(* State: fs is the endpoint's file tree; last is the record of the method *)
(* call in progress or just returned: the receiver, the arguments, the     *)
(* tree before it, the endpoint calls it issued in order, and its result   *)
(* or exception.  live is the sequence of the ContainerPath objects the    *)
(* caller holds, and step the record of the last construction or transform *)
(* that made or dropped one.                                               *)
(***************************************************************************)
EXTENDS Integers, Sequences, FiniteSets, TLC

VARIABLES fs, last, live, step

vars == <<fs, last, live, step>>

(***************************************************************************)
(* Bounds of the model.                                                    *)
(***************************************************************************)
\* Longest glob pattern, in characters.
MaxPatLen == 4
\* A fault is injected at the k-th endpoint call of a method, k <= MaxFaultAt.
MaxFaultAt == 3
\* Longest data written, in bytes (write_bytes) or characters (write_text).
MaxDataLen == 2
\* The longest segment, name or suffix given to a construction or transform.
MaxSegLen == 2
\* The most segments given at once to a construction, joinpath or with_segments.
MaxJoin == 1
\* The most ContainerPath objects the caller holds at once.
MaxLive == 2
\* The longest path, as a string, a ContainerPath is followed with.
MaxPathLen == 4

(***************************************************************************)
(* Program constants.                                                      *)
(***************************************************************************)
ENOENT == 2
EEXIST == 17
ENOTDIR == 20
EISDIR == 21
EPERM == 1
ELOOP == 40
NotFoundStatus == 404
UnknownCode == 9000

None == "None"

(***************************************************************************)
(* Pure paths.  A name is a sequence of characters, a path the sequence of *)
(* its names below the root; <<>> is "/".                                  *)
(***************************************************************************)
NameOrder == << <<"a">>, <<"b">> >>
Names == {NameOrder[i] : i \in 1..Len(NameOrder)}

\* The paths the model follows: the root, its entry "a", and the entries of
\* that entry.
NodePaths == {<<NameOrder[1]>>} \cup {<<NameOrder[1], n>> : n \in Names}
AllPaths == {<<>>} \cup NodePaths

ContainerName == "workload"

Receivers == [path : AllPaths, container : {ContainerName}]

Front(s) == SubSeq(s, 1, Len(s) - 1)
Range(s) == {s[i] : i \in 1..Len(s)}

\* PurePosixPath.parent: the root is its own parent.
Parent(p) == IF p = <<>> THEN <<>> ELSE Front(p)

\* with_segments: a new ContainerPath on the same container.
WithSegments(self, p) == [path |-> p, container |-> self.container]

ParentOf(self) == WithSegments(self, Parent(self.path))

\* self / key for one pattern component: an absolute key ("/" or "//")
\* drops the receiver's path, any other key is appended as a name.
IsRootPart(part) == part # <<>> /\ \A i \in 1..Len(part) : part[i] = "/"
TrueDiv(self, key) ==
    WithSegments(self, IF IsRootPart(key) THEN <<>> ELSE Append(self.path, key))

(***************************************************************************)
(* Descriptions and exceptions.                                            *)
(***************************************************************************)
NoDesc == [kind |-> "none", path |-> <<>>, container |-> ""]

\* f"'{self._path}' in ops.Container {self._container.name!r}"
DescriptionWithoutContainer(self) ==
    [kind |-> "description", path |-> self.path, container |-> ""]

Description(self) ==
    [kind |-> "description", path |-> self.path, container |-> self.container]

\* A pebble error: its class, and what the class carries (a PathError a kind
\* and a message, an APIError a code).  The message is the set of the
\* phrases the matchers look for that it contains.
NoRaw == [cls |-> "none", kind |-> "", code |-> 0, phrases |-> {}]
PathError(kind, phrases) ==
    [cls |-> "PathError", kind |-> kind, code |-> 0, phrases |-> phrases]
APIError(code) == [cls |-> "APIError", kind |-> "", code |-> code, phrases |-> {}]
ConnectionError == [cls |-> "ConnectionError", kind |-> "", code |-> 0, phrases |-> {}]

NoExc == [type |-> "none", errno |-> 0, desc |-> NoDesc, raw |-> NoRaw, text |-> {}]
\* An OSError(errno, strerror, msg) of the given subclass.
PyExc(type, errno, desc) ==
    [type |-> type, errno |-> errno, desc |-> desc, raw |-> NoRaw, text |-> {}]
\* A pebble error that propagates as it is.
RawExc(e) == [type |-> e.cls, errno |-> 0, desc |-> NoDesc, raw |-> e, text |-> {}]
\* An exception whose only argument is a text (LookupError(e.message), ...).
TextExc(type, text) ==
    [type |-> type, errno |-> 0, desc |-> NoDesc, raw |-> NoRaw, text |-> text]

OSErrorTypes == {"OSError", "FileNotFoundError", "FileExistsError", "PermissionError",
                 "IsADirectoryError", "NotADirectoryError"}

FileExistsExc(desc) == PyExc("FileExistsError", EEXIST, desc)
FileNotFoundExc(desc) == PyExc("FileNotFoundError", ENOENT, desc)
IsADirectoryExc(desc) == PyExc("IsADirectoryError", EISDIR, desc)
NotADirectoryExc(desc) == PyExc("NotADirectoryError", ENOTDIR, desc)
PermissionExc(desc) == PyExc("PermissionError", EPERM, desc)

(***************************************************************************)
(* Matching pebble errors.                                                 *)
(***************************************************************************)
MatchesFileExists(e) ==
    e.cls = "PathError" /\ e.kind = "generic-file-error" /\ "file exists" \in e.phrases

MatchesFileNotFound(e) ==
    \/ e.cls = "APIError" /\ e.code = NotFoundStatus
    \/ e.cls = "PathError" /\ e.kind = "not-found"

MatchesIsADirectory(e) ==
    /\ e.cls = "PathError"
    /\ e.kind = "generic-file-error"
    /\ "can only read a regular file" \in e.phrases

MatchesPermission(e) == e.cls = "PathError" /\ e.kind = "permission-denied"

MatchesNotADirectory(e) ==
    e.cls = "PathError" /\ e.kind = "generic-file-error" /\ "not a directory" \in e.phrases

MatchesLookup(e) ==
    e.cls = "PathError" /\ e.kind = "generic-file-error" /\ "unknown user/group" \in e.phrases

(***************************************************************************)
(* The endpoint: a file tree, and what each of its operations answers.     *)
(***************************************************************************)
TopTypes == {"absent", "file", "directory", "socket", "named-pipe"}
DeepTypes == {"absent", "file", "directory"}

TypeOf(f, p) ==
    IF p = <<>> THEN "directory" ELSE IF p \in NodePaths THEN f[p] ELSE "absent"

AllFS ==
    {f \in [NodePaths -> TopTypes] :
        \A p \in NodePaths :
            Len(p) = 2 =>
                /\ f[p] \in DeepTypes
                /\ f[p] # "absent" => f[Parent(p)] = "directory"}

\* What an endpoint operation answers: an error or a value, and the tree after.
Fail(f, e) == [err |-> e, val |-> <<>>, fs |-> f]
Done(f, v) == [err |-> NoRaw, val |-> v, fs |-> f]

PebbleFileExists == PathError("generic-file-error", {"file exists"})
PebbleNotADirectory == PathError("generic-file-error", {"not a directory"})
PebbleNotRegular == PathError("generic-file-error", {"can only read a regular file"})
PebbleIsADirectory == PathError("generic-file-error", {"is a directory"})
PebbleNotFound == PathError("not-found", {})

\* The proper ancestors of p, the root included.
Ancestors(p) == {SubSeq(p, 1, i) : i \in 0..(Len(p) - 1)}

EndpointMakeDir(f, p, make_parents) ==
    LET t == TypeOf(f, p)
        pt == TypeOf(f, Parent(p))
    IN  IF make_parents
        THEN IF \E a \in Ancestors(p) : TypeOf(f, a) \notin {"directory", "absent"}
             THEN Fail(f, PebbleNotADirectory)
             ELSE IF t = "directory" THEN Done(f, <<>>)
             ELSE IF t # "absent" THEN Fail(f, PebbleNotADirectory)
             ELSE Done([q \in NodePaths |->
                           IF q \in Ancestors(p) \cup {p} THEN "directory" ELSE f[q]],
                       <<>>)
        ELSE IF t # "absent" THEN Fail(f, PebbleFileExists)
             ELSE IF pt = "absent" THEN Fail(f, PebbleNotFound)
             ELSE IF pt # "directory" THEN Fail(f, PebbleNotADirectory)
             ELSE Done([f EXCEPT ![p] = "directory"], <<>>)

\* push: without make_dirs the parent must be there; with it the missing
\* ancestors are made.
EndpointPush(f, p, make_dirs) ==
    LET t == TypeOf(f, p)
        pt == TypeOf(f, Parent(p))
    IN  IF t = "directory" THEN Fail(f, PebbleIsADirectory)
        ELSE IF make_dirs
             THEN IF \E a \in Ancestors(p) : TypeOf(f, a) \notin {"directory", "absent"}
                  THEN Fail(f, PebbleNotADirectory)
                  ELSE Done([q \in NodePaths |->
                                IF q \in Ancestors(p) THEN "directory"
                                ELSE IF q = p THEN "file" ELSE f[q]],
                            <<>>)
        ELSE IF pt = "absent" THEN Fail(f, PebbleNotFound)
        ELSE IF pt # "directory" THEN Fail(f, PebbleNotADirectory)
        ELSE Done([f EXCEPT ![p] = "file"], <<>>)

\* pull: only a regular file is read; a socket is reported as not found.
EndpointPull(f, p, content) ==
    LET t == TypeOf(f, p)
    IN  IF t = "file" THEN Done(f, content)
        ELSE IF t \in {"absent", "socket"} THEN Fail(f, PebbleNotFound)
        ELSE Fail(f, PebbleNotRegular)

\* Shell-style matching of a name against a pattern: "*" is any run of characters.
RECURSIVE Match(_, _)
Match(pat, name) ==
    IF pat = <<>> THEN name = <<>>
    ELSE IF Head(pat) = "*"
         THEN Match(Tail(pat), name) \/ (name # <<>> /\ Match(pat, Tail(name)))
         ELSE name # <<>> /\ Head(name) = Head(pat) /\ Match(Tail(pat), Tail(name))

\* list_files: the entries of a directory (a non-directory lists itself), in
\* name order, those whose name matches the pattern when one is given.
EndpointListFiles(f, p, pattern) ==
    LET t == TypeOf(f, p)
        Shown(q) ==
            /\ TypeOf(f, q) # "absent"
            /\ pattern = <<>> \/ (q # <<>> /\ Match(pattern, q[Len(q)]))
        cands == [i \in 1..Len(NameOrder) |-> Append(p, NameOrder[i])]
    IN  IF t = "absent" THEN Fail(f, APIError(NotFoundStatus))
        ELSE IF t # "directory" THEN Done(f, SelectSeq(<<p>>, Shown))
        ELSE Done(f, SelectSeq(cands, Shown))

(***************************************************************************)
(* Faults.  Besides what the tree makes it answer, the endpoint may fail   *)
(* one call of a method: plan.at is the number of that call among the      *)
(* calls of the method, plan.perr the pebble error raised there by pull,   *)
(* push, list_files or make_dir, plan.look the exception raised there by   *)
(* the metadata lookup.                                                    *)
(***************************************************************************)
PebbleFaults ==
    {PebbleNotFound,
     PathError("permission-denied", {}),
     PebbleFileExists,
     PebbleNotADirectory,
     PebbleNotRegular,
     PathError("generic-file-error", {"unknown user/group"}),
     PathError("generic-file-error", {"unknown user/group", "not a directory"}),
     PathError("unknown-kind", {"unknown-message"}),
     APIError(NotFoundStatus),
     APIError(UnknownCode),
     ConnectionError}

LookupFaults ==
    {"FileNotFoundError", "ELOOP", "OSError", "PermissionError", "PathError",
     "ConnectionError"}

NoPlan == [at |-> 0, perr |-> NoRaw, look |-> ""]

Plans ==
    {NoPlan}
    \cup [at : 1..MaxFaultAt, perr : PebbleFaults, look : {""}]
    \cup [at : 1..MaxFaultAt, perr : {NoRaw}, look : LookupFaults]

\* The plans under which a glob is followed: its k-th call fails, whichever
\* call that is.
GlobPlans ==
    {NoPlan}
    \cup [at : 1..MaxFaultAt, perr : {PathError("unknown-kind", {"unknown-message"})},
          look : {"OSError"}]

\* The calls a method has issued so far, and the tree.
Start(f) == [fs |-> f, calls |-> <<>>]

\* One call: flag is make_parents of make_dir and make_dirs of push, source
\* the bytes given to push (WriteBytes fills it in).
CallRecord(kind, p, flag, pattern, err, look, ftype, faulted) ==
    [kind |-> kind, path |-> p, flag |-> flag, pattern |-> pattern, err |-> err,
     look |-> look, ftype |-> ftype, faulted |-> faulted, source |-> <<>>]

\* One call of pull, push, list_files or make_dir: normal is what the tree answers.
Call(st, kind, p, flag, pattern, plan, normal) ==
    LET hit == plan.at = Len(st.calls) + 1 /\ plan.perr # NoRaw
        err == IF hit THEN plan.perr ELSE normal.err
    IN  [st |-> [fs |-> IF hit THEN st.fs ELSE normal.fs,
                 calls |-> Append(st.calls,
                                  CallRecord(kind, p, flag, pattern, err, "", "", hit))],
         err |-> err,
         val |-> IF hit THEN <<>> ELSE normal.val]

LookupFaultExc(name, self) ==
    CASE name = "FileNotFoundError" -> FileNotFoundExc(Description(self))
      [] name = "ELOOP" -> PyExc("OSError", ELOOP, Description(self))
      [] name = "OSError" -> PyExc("OSError", UnknownCode, NoDesc)
      [] name = "PermissionError" -> PermissionExc(Description(self))
      [] name = "PathError" -> RawExc(PathError("unknown-kind", {"unknown-message"}))
      [] name = "ConnectionError" -> RawExc(ConnectionError)

Users == {None, "root"}
NoMeta == [user |-> None, group |-> None]

\* _fileinfo.from_container_path: the metadata of the path, FileNotFoundError
\* if the path does not exist.
FromContainerPath(st, self, meta, plan) ==
    LET hit == plan.at = Len(st.calls) + 1 /\ plan.look # ""
        t == TypeOf(st.fs, self.path)
        exc == IF hit THEN LookupFaultExc(plan.look, self)
               ELSE IF t = "absent" THEN FileNotFoundExc(Description(self))
               ELSE NoExc
    IN  [st |-> [st EXCEPT !.calls =
                    Append(@, CallRecord("lookup", self.path, FALSE, <<>>, NoRaw,
                                         IF hit THEN plan.look
                                         ELSE IF exc = NoExc THEN "ok"
                                         ELSE "FileNotFoundError",
                                         IF exc = NoExc THEN t ELSE "", hit))],
         exc |-> exc,
         info |-> [type |-> t, user |-> meta.user, group |-> meta.group]]

\* What a method gives back.
Ok(v) == [status |-> "ok", value |-> v, exc |-> NoExc]
Raised(e) == [status |-> "raised", value |-> None, exc |-> e]
Result(st, out) == [fs |-> st.fs, calls |-> st.calls, out |-> out]

(***************************************************************************)
(* The methods of ContainerPath.  Each takes the tree (or the calls so     *)
(* far), the receiver, its arguments and the fault plan, and gives the     *)
(* tree after, the endpoint calls issued and the result or exception.      *)
(***************************************************************************)

\* Variant: the rules of read applied to every pebble error, not only to a
\* PathError.
PullTranslateAnyClass(self, e) ==
    IF MatchesFileNotFound(e) THEN FileNotFoundExc(Description(self))
    ELSE IF MatchesIsADirectory(e) THEN IsADirectoryExc(Description(self))
    ELSE IF MatchesPermission(e) THEN PermissionExc(Description(self))
    ELSE RawExc(e)

\* except pebble.PathError in _pull: the rules of read, in order.
PullTranslate(self, e) ==
    IF e.cls # "PathError" THEN RawExc(e)
    ELSE IF MatchesFileNotFound(e) THEN FileNotFoundExc(Description(self))
    ELSE IF MatchesIsADirectory(e) THEN IsADirectoryExc(Description(self))
    ELSE IF MatchesPermission(e) THEN PermissionExc(Description(self))
    ELSE RawExc(e)

\* re.sub('\r\n|\r|\n', '\n', text)
RECURSIVE NormalizeNewlines(_)
NormalizeNewlines(text) ==
    IF text = <<>> THEN <<>>
    ELSE IF Head(text) = "\r" /\ Len(text) >= 2 /\ text[2] = "\n"
         THEN <<"\n">> \o NormalizeNewlines(Tail(Tail(text)))
    ELSE IF Head(text) = "\r" THEN <<"\n">> \o NormalizeNewlines(Tail(text))
    ELSE <<Head(text)>> \o NormalizeNewlines(Tail(text))

Pull(f, self, content, plan) ==
    LET r == Call(Start(f), "pull", self.path, FALSE, <<>>, plan,
                  EndpointPull(f, self.path, content))
    IN  Result(r.st, IF r.err = NoRaw THEN Ok(r.val) ELSE Raised(PullTranslate(self, r.err)))

ReadBytes(f, self, content, plan) == Pull(f, self, content, plan)

ReadText(f, self, newline, content, plan) ==
    LET r == Pull(f, self, content, plan)
    IN  IF r.out.status = "ok" /\ newline = None
        THEN [r EXCEPT !.out = Ok(NormalizeNewlines(r.out.value))]
        ELSE r

\* except pebble.PathError in write_bytes: the rules of write, in order.
WriteTranslate(self, e) ==
    IF e.cls # "PathError" THEN RawExc(e)
    ELSE IF MatchesLookup(e) THEN TextExc("LookupError", e.phrases)
    ELSE IF MatchesFileNotFound(e) THEN FileNotFoundExc(Description(self))
    ELSE IF MatchesPermission(e) THEN PermissionExc(Description(self))
    ELSE RawExc(e)

\* A buffer: bytes, a bytearray or a memoryview, its items in order and the
\* size of an item in bytes (1 but for a memoryview of wider items).
BytesOf(items) == [kind |-> "bytes", items |-> items, itemsize |-> 1]

\* The bytes of one item: the value, then zeros up to the size of an item.
RECURSIVE ItemBytes(_, _)
ItemBytes(items, itemsize) ==
    IF items = <<>> THEN <<>>
    ELSE <<Head(items)>> \o [i \in 1..(itemsize - 1) |-> 0]
         \o ItemBytes(Tail(items), itemsize)

\* bytes(data): the bytes the buffer holds.
ToBytes(buf) == BytesOf(ItemBytes(buf.items, buf.itemsize))

\* len(data): the number of items.
PyLen(buf) == Len(buf.items)

\* The push of write_bytes: source is what is given to push.
Push(f, self, source, make_dirs, plan) ==
    LET c == Call(Start(f), "push", self.path, make_dirs, <<>>, plan,
                  EndpointPush(f, self.path, make_dirs))
    IN  [c EXCEPT !.st.calls[Len(c.st.calls)].source = source.items]

\* Variant: write_bytes without bytes(data) for a bytearray or memoryview.
WriteBytesUnconverted(f, self, buf, plan) ==
    LET r == Push(f, self, buf, FALSE, plan)
    IN  Result(r.st,
               IF r.err = NoRaw THEN Ok(PyLen(buf)) ELSE Raised(WriteTranslate(self, r.err)))

WriteBytes(f, self, buf, plan) ==
    LET data == IF buf.kind \in {"bytearray", "memoryview"} THEN ToBytes(buf) ELSE buf
        r == Push(f, self, data, FALSE, plan)
    IN  Result(r.st,
               IF r.err = NoRaw THEN Ok(PyLen(data)) ELSE Raised(WriteTranslate(self, r.err)))

\* bytes(data, encoding='utf-8', errors='strict'): one byte for "x", two
\* for U+00E9 ("e-acute"); a lone surrogate cannot be encoded.
Surrogate == "surrogate"
EncodeChar(c) == IF c = "e-acute" THEN <<195, 169>> ELSE <<120>>
RECURSIVE Encode(_)
Encode(text) == IF text = <<>> THEN <<>> ELSE EncodeChar(Head(text)) \o Encode(Tail(text))

WriteText(f, self, text, plan) ==
    IF Surrogate \in Range(text)
    THEN Result(Start(f), Raised(TextExc("UnicodeEncodeError", {})))
    ELSE WriteBytes(f, self, BytesOf(Encode(text)), plan)

\* Variant: _exists_and_matches without the ELOOP rule.
ExistsAndMatchesNoLoopRule(st, self, filetype, plan) ==
    LET r == FromContainerPath(st, self, NoMeta, plan)
    IN  Result(r.st,
               IF r.exc.type = "FileNotFoundError" THEN Ok(FALSE)
               ELSE IF r.exc # NoExc THEN Raised(r.exc)
               ELSE IF filetype = None THEN Ok(TRUE)
               ELSE Ok(r.info.type = filetype))

\* _exists_and_matches: continues the calls of st.
ExistsAndMatches(st, self, filetype, plan) ==
    LET r == FromContainerPath(st, self, NoMeta, plan)
    IN  Result(r.st,
               IF r.exc.type = "FileNotFoundError" THEN Ok(FALSE)
               ELSE IF r.exc.type \in OSErrorTypes /\ r.exc.errno = ELOOP THEN Ok(FALSE)
               ELSE IF r.exc # NoExc THEN Raised(r.exc)
               ELSE IF filetype = None THEN Ok(TRUE)
               ELSE Ok(r.info.type = filetype))

Exists(st, self, plan) == ExistsAndMatches(st, self, None, plan)
IsDir(st, self, plan) == ExistsAndMatches(st, self, "directory", plan)
IsFile(st, self, plan) == ExistsAndMatches(st, self, "file", plan)
IsFifo(st, self, plan) == ExistsAndMatches(st, self, "named-pipe", plan)
IsSocket(st, self, plan) == ExistsAndMatches(st, self, "socket", plan)

\* info.user or '' (and the same for the group)
OrEmpty(v) == IF v = None THEN "" ELSE v

Owner(f, self, meta, plan) ==
    LET r == FromContainerPath(Start(f), self, meta, plan)
    IN  Result(r.st, IF r.exc # NoExc THEN Raised(r.exc) ELSE Ok(OrEmpty(r.info.user)))

Group(f, self, meta, plan) ==
    LET r == FromContainerPath(Start(f), self, meta, plan)
    IN  Result(r.st, IF r.exc # NoExc THEN Raised(r.exc) ELSE Ok(OrEmpty(r.info.group)))

\* Variant: the NotADirectoryError of mkdir names the parent.
MkdirNotADirectoryDescParent(self) == Description(ParentOf(self))

\* The description the NotADirectoryError of mkdir carries.
MkdirNotADirectoryDesc(self) == Description(self)

\* Variant: the FileNotFoundError of the check of the parent names the target.
MkdirMissingParentDescTarget(self) == Description(self)

\* The description the FileNotFoundError of mkdir's check of the parent carries.
MkdirMissingParentDesc(self) == Description(ParentOf(self))

\* Variants: mkdir never asks if the path exists; it asks whenever parents
\* is set.
NeedsExistsCheckNever(parents, exist_ok) == FALSE
NeedsExistsCheckParents(parents, exist_ok) == parents

\* Whether mkdir first asks if the path exists, and if its parent does.
NeedsExistsCheck(parents, exist_ok) == parents /\ ~exist_ok
NeedsParentCheckWithoutParents(parents, exist_ok) == ~parents
NeedsParentCheck(parents, exist_ok) == exist_ok /\ ~parents

\* make_parents of the make_dir call.
MakeParents(parents, exist_ok) == parents \/ exist_ok

\* except pebble.PathError in mkdir, once the error is known not to be a
\* lookup failure: st holds the calls up to and including make_dir.
MkdirTranslate(st, self, e, plan) ==
    IF MatchesNotADirectory(e)
    THEN LET d == IsDir(st, ParentOf(self), plan)
         IN  IF d.out.status = "raised" THEN d
             ELSE IF ~d.out.value
                  THEN Result(d, Raised(NotADirectoryExc(MkdirNotADirectoryDesc(self))))
                  ELSE Result(d, Raised(FileExistsExc(Description(self))))
    ELSE IF MatchesFileExists(e) THEN Result(st, Raised(FileExistsExc(Description(self))))
    ELSE IF MatchesFileNotFound(e) THEN Result(st, Raised(FileNotFoundExc(Description(self))))
    ELSE IF MatchesPermission(e) THEN Result(st, Raised(PermissionExc(Description(self))))
    ELSE Result(st, Raised(RawExc(e)))

\* The make_dir call of mkdir and the translation of its error.
MkdirMakeDir(st, self, parents, exist_ok, plan) ==
    LET r == Call(st, "make_dir", self.path, MakeParents(parents, exist_ok), <<>>, plan,
                  EndpointMakeDir(st.fs, self.path, MakeParents(parents, exist_ok)))
    IN  IF r.err = NoRaw THEN Result(r.st, Ok(None))
        ELSE IF r.err.cls # "PathError" THEN Result(r.st, Raised(RawExc(r.err)))
        ELSE IF MatchesLookup(r.err)
             THEN Result(r.st, Raised(TextExc("LookupError", r.err.phrases)))
        ELSE MkdirTranslate(r.st, self, r.err, plan)

Mkdir(f, self, parents, exist_ok, plan) ==
    IF NeedsExistsCheck(parents, exist_ok)
    THEN LET x == Exists(Start(f), self, plan)
         IN  IF x.out.status = "raised" THEN x
             ELSE IF x.out.value THEN Result(x, Raised(FileExistsExc(Description(self))))
             ELSE MkdirMakeDir(x, self, parents, exist_ok, plan)
    ELSE IF NeedsParentCheck(parents, exist_ok)
    THEN LET x == Exists(Start(f), ParentOf(self), plan)
         IN  IF x.out.status = "raised" THEN x
             ELSE IF ~x.out.value
                  THEN Result(x, Raised(FileNotFoundExc(MkdirMissingParentDesc(self))))
             ELSE MkdirMakeDir(x, self, parents, exist_ok, plan)
    ELSE MkdirMakeDir(Start(f), self, parents, exist_ok, plan)

\* The body of iterdir, run when the generator is first advanced: continues
\* the calls of st.  The value is the sequence of the paths it yields.
IterdirBody(st, self, plan) ==
    LET r == FromContainerPath(st, self, NoMeta, plan)
    IN  IF r.exc # NoExc THEN Result(r.st, Raised(r.exc))
        ELSE IF r.info.type # "directory"
             THEN Result(r.st, Raised(NotADirectoryExc(Description(self))))
        ELSE LET c == Call(r.st, "list_files", self.path, FALSE, <<>>, plan,
                           EndpointListFiles(r.st.fs, self.path, <<>>))
             IN  Result(c.st,
                        IF c.err # NoRaw THEN Raised(RawExc(c.err))
                        ELSE Ok([i \in 1..Len(c.val) |-> WithSegments(self, c.val[i])]))

(***************************************************************************)
(* Glob patterns are strings: sequences of characters.                     *)
(***************************************************************************)
PatChars == {"a", "*", "/"}
DoubleStar == <<"*", "*">>

Contains(s, sub) ==
    \E i \in 1..(Len(s) - Len(sub) + 1) : SubSeq(s, i, i + Len(sub) - 1) = sub

\* The components between the slashes of s, the empty ones dropped.
RECURSIVE SplitSlash(_, _)
SplitSlash(s, cur) ==
    LET done == IF cur = <<>> THEN <<>> ELSE <<cur>>
    IN  IF s = <<>> THEN done
        ELSE IF Head(s) = "/" THEN done \o SplitSlash(Tail(s), <<>>)
        ELSE SplitSlash(Tail(s), Append(cur, Head(s)))

RECURSIVE LeadingSlashes(_)
LeadingSlashes(s) ==
    IF s # <<>> /\ Head(s) = "/" THEN 1 + LeadingSlashes(Tail(s)) ELSE 0

\* pathlib.PurePath(pattern).parts: the root if the pattern is absolute (two
\* leading slashes are a root of their own), then the components.
PartsOf(s) ==
    LET n == LeadingSlashes(s)
        root == IF n = 0 THEN <<>> ELSE IF n = 2 THEN << <<"/", "/">> >> ELSE << <<"/">> >>
    IN  root \o SplitSlash(s, <<>>)

\* str(pathlib.PurePath(*parts))
RECURSIVE JoinParts(_)
JoinParts(parts) ==
    IF parts = <<>> THEN <<>>
    ELSE IF Len(parts) = 1 THEN parts[1]
    ELSE IF IsRootPart(parts[1]) THEN parts[1] \o JoinParts(Tail(parts))
    ELSE parts[1] \o <<"/">> \o JoinParts(Tail(parts))

\* Variant: the two checks of glob in the other order.
GlobRejectsSubstringFirst(pattern) ==
    LET parts == PartsOf(pattern)
    IN  IF parts = <<>> THEN ""
        ELSE IF Contains(pattern, DoubleStar) THEN "ValueError"
        ELSE IF DoubleStar \in Range(Front(parts)) THEN "NotImplementedError"
        ELSE ""

\* Which of its two errors glob raises for a pattern, "" for neither.
GlobRejects(pattern) ==
    LET parts == PartsOf(pattern)
    IN  IF parts = <<>> THEN ""
        ELSE IF DoubleStar \in Range(Front(parts)) THEN "NotImplementedError"
        ELSE IF Contains(pattern, DoubleStar) THEN "ValueError"
        ELSE ""

RecursiveGlobText == {"Recursive glob is not supported."}
InvalidPatternText == {"Invalid pattern: '**' can only be an entire path component"}
UnpackText == {"not enough values to unpack"}

\* A glob under way: the tree, the calls so far, the paths yielded so far,
\* and the exception that ended it (NoExc while it runs).
GlobState(st, found, exc) ==
    [fs |-> st.fs, calls |-> st.calls, found |-> found, exc |-> exc]

\* F of the value of x, with x evaluated once.
Bind(x, F(_)) == CHOOSE y \in {F(v) : v \in {x}} : TRUE

RECURSIVE GlobRun(_, _, _, _, _)
RECURSIVE GlobEach(_, _, _, _, _, _)

\* glob with a one-component pattern: one list_files call with the pattern.
GlobList(g, self, pattern_itself, plan) ==
    Bind(Call(g, "list_files", self.path, FALSE, pattern_itself, plan,
              EndpointListFiles(g.fs, self.path, pattern_itself)),
         LAMBDA c :
            IF c.err # NoRaw THEN GlobState(c.st, g.found, RawExc(c.err))
            ELSE GlobState(c.st,
                           g.found \o [i \in 1..Len(c.val) |-> WithSegments(self, c.val[i])],
                           NoExc))

\* The body of glob, run to exhaustion.  optimized: python -O, which drops
\* the assert.
GlobRun(g, self, pattern, plan, optimized) ==
    Bind(PartsOf(pattern), LAMBDA parts :
        IF parts = <<>> THEN GlobState(g, g.found, TextExc("ValueError", UnpackText))
        ELSE IF GlobRejects(pattern) = "NotImplementedError"
             THEN GlobState(g, g.found, TextExc("NotImplementedError", RecursiveGlobText))
        ELSE IF GlobRejects(pattern) = "ValueError"
             THEN GlobState(g, g.found, TextExc("ValueError", InvalidPatternText))
        ELSE IF Len(parts) = 1 THEN GlobList(g, self, parts[1], plan)
        ELSE IF Head(parts) = <<"*">>
             THEN Bind(IterdirBody(g, self, plan), LAMBDA it :
                      IF it.out.status = "raised" THEN GlobState(it, g.found, it.out.exc)
                      ELSE GlobEach(GlobState(it, g.found, NoExc), it.out.value, 1,
                                    JoinParts(Tail(parts)), plan, optimized))
        ELSE IF "*" \in Range(Head(parts)) /\ ~optimized
             THEN GlobState(g, g.found, TextExc("AssertionError", {}))
        ELSE GlobRun(g, TrueDiv(self, Head(parts)), JoinParts(Tail(parts)), plan,
                     optimized))

\* for container_path in self.iterdir(): from the i-th entry on.
GlobEach(g, entries, i, next, plan, optimized) ==
    IF i > Len(entries) THEN g
    ELSE Bind(IsDir(g, entries[i], plan), LAMBDA d :
            IF d.out.status = "raised" THEN GlobState(d, g.found, d.out.exc)
            ELSE IF ~d.out.value
                 THEN GlobEach(GlobState(d, g.found, NoExc), entries, i + 1, next, plan,
                               optimized)
            ELSE Bind(GlobRun(GlobState(d, g.found, NoExc), entries[i], next, plan,
                              optimized),
                      LAMBDA sub :
                         IF sub.exc # NoExc THEN sub
                         ELSE GlobEach(sub, entries, i + 1, next, plan, optimized)))

GlobBody(f, self, pattern, plan, optimized) ==
    LET g == GlobRun(GlobState(Start(f), <<>>, NoExc), self, pattern, plan, optimized)
    IN  Result(g, IF g.exc # NoExc THEN Raised(g.exc) ELSE Ok(g.found))

(***************************************************************************)
(* The inputs of the methods.                                              *)
(***************************************************************************)
SeqsUpTo(S, n) == UNION {[1..k -> S] : k \in 0..n}

Patterns == SeqsUpTo(PatChars, MaxPatLen)
Contents == SeqsUpTo({"x", "\r", "\n"}, MaxDataLen)
Texts == SeqsUpTo({"x", "e-acute", Surrogate}, MaxDataLen)
Buffers ==
    {b \in [kind : {"bytes", "bytearray", "memoryview"},
            items : SeqsUpTo({120}, MaxDataLen), itemsize : {1, 2}] :
        b.itemsize = 1 \/ b.kind = "memoryview"}
Newlines == {None, ""}
Metas == [user : Users, group : Users]

(***************************************************************************)
(* Construction and transforms.  Here a pure path is what pathlib holds:   *)
(* the sequence of its parts, the root first when it has one, each part a  *)
(* string; a ContainerPath object is its pure path and its container.      *)
(***************************************************************************)
SegChars == {"a", "/"}
NameChars == {"a", ".", "/"}
Containers == {ContainerName, "sidecar"}

\* posixpath.join: a segment that starts with "/" drops what came before it.
RECURSIVE PosixJoin(_)
PosixJoin(segs) ==
    IF segs = <<>> THEN <<>>
    ELSE LET a == PosixJoin(Front(segs))
             b == segs[Len(segs)]
         IN  IF b # <<>> /\ Head(b) = "/" THEN b
             ELSE IF a = <<>> \/ a[Len(a)] = "/" THEN a \o b
             ELSE a \o <<"/">> \o b

\* pathlib.PurePosixPath(*segs)
PurePosixPath(segs) == PartsOf(PosixJoin(segs))

\* PurePosixPath.is_absolute: the path has a root.
IsAbsolute(path) == path # <<>> /\ IsRootPart(path[1])

\* PurePosixPath.name: empty for the root and for the empty path.
PureName(path) ==
    IF path = <<>> \/ IsRootPart(path[Len(path)]) THEN <<>> ELSE path[Len(path)]

\* PurePosixPath.parent: a path without a name is its own parent.
PureParent(path) == IF PureName(path) = <<>> THEN path ELSE Front(path)

\* PurePosixPath.parents: the parent, its parent, and so on up to the root.
RECURSIVE PureParents(_)
PureParents(path) ==
    IF PureName(path) = <<>> THEN <<>>
    ELSE <<Front(path)>> \o PureParents(Front(path))

\* What a pure transform gives: the new pure path, or a ValueError.
PureOk(path) == [exc |-> "", path |-> path]
PureFail(exc) == [exc |-> exc, path |-> <<>>]

\* PurePosixPath.with_name
PureWithName(path, name) ==
    IF PureName(path) = <<>> THEN PureFail("ValueError")
    ELSE IF name = <<>> \/ "/" \in Range(name) \/ name = <<".">> THEN PureFail("ValueError")
    ELSE PureOk(Append(Front(path), name))

\* The index of the last "." of a name, 0 if it has none.
LastDot(name) ==
    LET dots == {i \in 1..Len(name) : name[i] = "."}
    IN  IF dots = {} THEN 0 ELSE CHOOSE i \in dots : \A j \in dots : j <= i

\* PurePosixPath.suffix: from the last "." on, unless that "." begins or
\* ends the name.
PureSuffix(name) ==
    LET i == LastDot(name)
    IN  IF 1 < i /\ i < Len(name) THEN SubSeq(name, i, Len(name)) ELSE <<>>

\* PurePosixPath.with_suffix
PureWithSuffix(path, suffix) ==
    IF "/" \in Range(suffix) THEN PureFail("ValueError")
    ELSE IF (suffix # <<>> /\ Head(suffix) # ".") \/ suffix = <<".">>
         THEN PureFail("ValueError")
    ELSE IF PureName(path) = <<>> THEN PureFail("ValueError")
    ELSE LET name == PureName(path)
             stem == SubSeq(name, 1, Len(name) - Len(PureSuffix(name)))
         IN  PureOk(Append(Front(path), stem \o suffix))

\* What a construction or a transform gives: the exception raised (""
\* for none), the receiver as the call leaves it, and the objects made.
Made(self, objs) == [exc |-> "", self |-> self, objs |-> objs]
Failed(self, exc) == [exc |-> exc, self |-> self, objs |-> <<>>]
NoObject == [path |-> <<>>, container |-> ""]

\* Variant: __init__ without its check.
InitRejectsNothing(path) == FALSE

\* if not self._path.is_absolute(): raise RelativePathError
InitRejects(path) == ~IsAbsolute(path)

\* ContainerPath.__init__ on behalf of the caller self (NoObject when the
\* caller is no ContainerPath).
ContainerPathInit(self, segs, container) ==
    LET path == PurePosixPath(segs)
    IN  IF InitRejects(path) THEN Failed(self, "RelativePathError")
        ELSE Made(self, <<[path |-> path, container |-> container]>>)

PathWithSegments(self, segs) == ContainerPathInit(self, segs, self.container)

\* The pure path of the receiver as a segment: str(self._path).
PathTrueDiv(self, key) == PathWithSegments(self, <<JoinParts(self.path), key>>)

PathJoinpath(self, other) == PathWithSegments(self, <<JoinParts(self.path)>> \o other)

PathWithName(self, name) ==
    LET r == PureWithName(self.path, name)
    IN  IF r.exc # "" THEN Failed(self, r.exc)
        ELSE PathWithSegments(self, <<JoinParts(r.path)>>)

PathWithSuffix(self, suffix) ==
    LET r == PureWithSuffix(self.path, suffix)
    IN  IF r.exc # "" THEN Failed(self, r.exc)
        ELSE PathWithSegments(self, <<JoinParts(r.path)>>)

PathParent(self) == PathWithSegments(self, <<JoinParts(PureParent(self.path))>>)

\* tuple(self.with_segments(p) for p in self._path.parents)
RECURSIVE EachWithSegments(_, _)
EachWithSegments(self, paths) ==
    IF paths = <<>> THEN Made(self, <<>>)
    ELSE LET r == PathWithSegments(self, <<JoinParts(Head(paths))>>)
             rest == EachWithSegments(r.self, Tail(paths))
         IN  IF r.exc # "" THEN r
             ELSE IF rest.exc # "" THEN rest
             ELSE Made(rest.self, r.objs \o rest.objs)

PathParents(self) == EachWithSegments(self, PureParents(self.path))

\* yield self.with_segments(f.path), for one entry the endpoint reports.
YieldEntry(self, fpath) == PathWithSegments(self, <<fpath>>)

Segments == SeqsUpTo(SegChars, MaxSegLen)
NameStrings == SeqsUpTo(NameChars, MaxSegLen)
SegmentLists == SeqsUpTo(Segments, MaxJoin)

\* The last construction or transform: the object it was called on (its
\* place in live, and what it was before the call), the segments given to a
\* construction, how many objects the caller held before, and the exception.
NoStep ==
    [op |-> "none", recv |-> 0, was |-> NoObject, segs |-> <<>>, held |-> 0, exc |-> ""]

(***************************************************************************)
(* The state machine.  A ContainerPath keeps nothing between calls: a      *)
(* method is called when no call is under way (Idle), runs to its return   *)
(* or exception, and the caller then drops the result.  iterdir and glob   *)
(* are generator functions: the call only makes the generator, and their   *)
(* body runs when the caller consumes it.                                  *)
(***************************************************************************)
NoOut == [status |-> "none", value |-> None, exc |-> NoExc]
NoArgs == [none |-> TRUE]

Idle ==
    [op |-> "none", self |-> [path |-> <<>>, container |-> ContainerName],
     args |-> NoArgs, before |-> <<>>, calls |-> <<>>, out |-> NoOut, phase |-> "idle"]

Init ==
    /\ fs \in AllFS
    /\ last = Idle
    /\ live = <<>>
    /\ step = NoStep

\* The method op of self returned: r is what it did.
Return(op, self, args, r) ==
    /\ fs' = r.fs
    /\ last' = [op |-> op, self |-> self, args |-> args, before |-> fs,
                calls |-> r.calls, out |-> r.out, phase |-> "returned"]
    /\ UNCHANGED <<live, step>>

\* The generator function op of self was called: nothing of its body has run.
MakeGenerator(op, self, args) ==
    /\ fs' = fs
    /\ last' = [op |-> op, self |-> self, args |-> args, before |-> fs,
                calls |-> <<>>, out |-> NoOut, phase |-> "generator"]
    /\ UNCHANGED <<live, step>>

CallReadText ==
    /\ last.phase = "idle"
    /\ \E self \in Receivers, newline \in Newlines, content \in Contents, plan \in Plans :
          Return("read_text", self, [newline |-> newline],
                 ReadText(fs, self, newline, content, plan))

CallReadBytes ==
    /\ last.phase = "idle"
    /\ \E self \in Receivers, content \in Contents, plan \in Plans :
          Return("read_bytes", self, NoArgs, ReadBytes(fs, self, content, plan))

CallWriteBytes ==
    /\ last.phase = "idle"
    /\ \E self \in Receivers, buf \in Buffers, plan \in Plans :
          Return("write_bytes", self, [data |-> buf],
                 WriteBytes(fs, self, buf, plan))

CallWriteText ==
    /\ last.phase = "idle"
    /\ \E self \in Receivers, text \in Texts, plan \in Plans :
          Return("write_text", self, [data |-> text], WriteText(fs, self, text, plan))

CallOwner ==
    /\ last.phase = "idle"
    /\ \E self \in Receivers, meta \in Metas, plan \in Plans :
          Return("owner", self, NoArgs, Owner(fs, self, meta, plan))

CallGroup ==
    /\ last.phase = "idle"
    /\ \E self \in Receivers, meta \in Metas, plan \in Plans :
          Return("group", self, NoArgs, Group(fs, self, meta, plan))

CallExists ==
    /\ last.phase = "idle"
    /\ \E self \in Receivers, plan \in Plans :
          Return("exists", self, NoArgs, Exists(Start(fs), self, plan))

CallIsDir ==
    /\ last.phase = "idle"
    /\ \E self \in Receivers, plan \in Plans :
          Return("is_dir", self, NoArgs, IsDir(Start(fs), self, plan))

CallIsFile ==
    /\ last.phase = "idle"
    /\ \E self \in Receivers, plan \in Plans :
          Return("is_file", self, NoArgs, IsFile(Start(fs), self, plan))

CallIsFifo ==
    /\ last.phase = "idle"
    /\ \E self \in Receivers, plan \in Plans :
          Return("is_fifo", self, NoArgs, IsFifo(Start(fs), self, plan))

CallIsSocket ==
    /\ last.phase = "idle"
    /\ \E self \in Receivers, plan \in Plans :
          Return("is_socket", self, NoArgs, IsSocket(Start(fs), self, plan))

CallMkdir ==
    /\ last.phase = "idle"
    /\ \E self \in Receivers, parents \in BOOLEAN, exist_ok \in BOOLEAN, plan \in Plans :
          Return("mkdir", self, [parents |-> parents, exist_ok |-> exist_ok],
                 Mkdir(fs, self, parents, exist_ok, plan))

CallIterdir ==
    /\ last.phase = "idle"
    /\ \E self \in Receivers : MakeGenerator("iterdir", self, NoArgs)

CallGlob ==
    /\ last.phase = "idle"
    /\ \E self \in Receivers, pattern \in Patterns :
          MakeGenerator("glob", self, [pattern |-> pattern])

\* list(generator) of an iterdir generator: its body runs, and every path is taken.
ConsumeIterdir ==
    /\ last.phase = "generator"
    /\ last.op = "iterdir"
    /\ \E plan \in Plans :
          LET r == IterdirBody(Start(fs), last.self, plan)
          IN  /\ fs' = r.fs
              /\ last' = [last EXCEPT !.calls = r.calls, !.out = r.out,
                                      !.phase = "exhausted"]
              /\ UNCHANGED <<live, step>>

\* Whether some leading component of the pattern holds a "*" among other
\* characters: python -O makes no difference to the other patterns.
MayAssert(pattern) ==
    \E part \in Range(Front(PartsOf(pattern))) : "*" \in Range(part) /\ part # <<"*">>

\* list(generator) of a glob generator.
ConsumeGlob ==
    /\ last.phase = "generator"
    /\ last.op = "glob"
    /\ \E plan \in GlobPlans,
          optimized \in IF MayAssert(last.args.pattern) THEN BOOLEAN ELSE {FALSE} :
          LET r == GlobBody(fs, last.self, last.args.pattern, plan, optimized)
          IN  /\ fs' = r.fs
              /\ last' = [last EXCEPT !.calls = r.calls, !.out = r.out,
                                      !.phase = "exhausted"]
              /\ UNCHANGED <<live, step>>

\* The caller drops the result, the exception or the generator.
Drop ==
    /\ last.phase # "idle"
    /\ fs' = fs
    /\ last' = Idle
    /\ UNCHANGED <<live, step>>

Next ==
    \/ CallReadText
    \/ CallReadBytes
    \/ CallWriteBytes
    \/ CallWriteText
    \/ CallOwner
    \/ CallGroup
    \/ CallExists
    \/ CallIsDir
    \/ CallIsFile
    \/ CallIsFifo
    \/ CallIsSocket
    \/ CallMkdir
    \/ CallIterdir
    \/ CallGlob
    \/ ConsumeIterdir
    \/ ConsumeGlob
    \/ Drop

Spec == Init /\ [][Next]_vars

(***************************************************************************)
(* Constructions and transforms.  The caller holds the objects of live; a  *)
(* construction or a transform of one of them adds what it makes, and an   *)
(* exception adds nothing.  No endpoint call is made.                      *)
(***************************************************************************)
EmptyFS == [p \in NodePaths |-> "absent"]

PathInit ==
    /\ fs = EmptyFS
    /\ last = Idle
    /\ live = <<>>
    /\ step = NoStep

\* The call op on the i-th object (0: on no object) gave r.
Apply(op, i, segs, r) ==
    /\ Len(live) + Len(r.objs) <= MaxLive
    /\ \A k \in 1..Len(r.objs) : Len(JoinParts(r.objs[k].path)) <= MaxPathLen
    /\ live' = (IF i = 0 THEN live ELSE [live EXCEPT ![i] = r.self]) \o r.objs
    /\ step' = [op |-> op, recv |-> i, was |-> IF i = 0 THEN NoObject ELSE live[i],
                segs |-> segs, held |-> Len(live), exc |-> r.exc]
    /\ UNCHANGED <<fs, last>>

\* ContainerPath(*segs, container=container), while the caller has room for
\* one more object.
Construct ==
    /\ Len(live) < MaxLive
    /\ \E segs \in SegmentLists, container \in Containers :
          Apply("construct", 0, segs, ContainerPathInit(NoObject, segs, container))

DoWithSegments ==
    \E i \in 1..Len(live), segs \in SegmentLists :
        Apply("with_segments", i, segs, PathWithSegments(live[i], segs))

DoTrueDiv ==
    \E i \in 1..Len(live), key \in Segments :
        Apply("truediv", i, <<>>, PathTrueDiv(live[i], key))

DoJoinpath ==
    \E i \in 1..Len(live), other \in SegmentLists :
        Apply("joinpath", i, <<>>, PathJoinpath(live[i], other))

DoWithName ==
    \E i \in 1..Len(live), name \in NameStrings :
        Apply("with_name", i, <<>>, PathWithName(live[i], name))

DoWithSuffix ==
    \E i \in 1..Len(live), suffix \in NameStrings :
        Apply("with_suffix", i, <<>>, PathWithSuffix(live[i], suffix))

DoParent ==
    \E i \in 1..Len(live) : Apply("parent", i, <<>>, PathParent(live[i]))

DoParents ==
    \E i \in 1..Len(live) : Apply("parents", i, <<>>, PathParents(live[i]))

\* An iterdir or glob generator of the i-th object yields the path of an
\* entry the endpoint reported as fpath.
DoYield ==
    \E i \in 1..Len(live), fpath \in Segments :
        Apply("yield", i, <<>>, YieldEntry(live[i], fpath))

\* The caller lets go of the i-th object.
Release ==
    \E i \in 1..Len(live) :
        /\ live' = SubSeq(live, 1, i - 1) \o SubSeq(live, i + 1, Len(live))
        /\ step' = [op |-> "release", recv |-> i, was |-> live[i], segs |-> <<>>,
                    held |-> Len(live), exc |-> ""]
        /\ UNCHANGED <<fs, last>>

PathNext ==
    \/ Construct
    \/ DoWithSegments
    \/ DoTrueDiv
    \/ DoJoinpath
    \/ DoWithName
    \/ DoWithSuffix
    \/ DoParent
    \/ DoParents
    \/ DoYield
    \/ Release

PathSpec == PathInit /\ [][PathNext]_vars

(***************************************************************************)
(* Properties.                                                             *)
(***************************************************************************)
Finished == last.phase \in {"returned", "exhausted"}
Kinds == [i \in 1..Len(last.calls) |-> last.calls[i].kind]
NoFault == \A i \in 1..Len(last.calls) : ~last.calls[i].faulted
ExistedBefore(p) == TypeOf(last.before, p) # "absent"

MkdirDone(parents, exist_ok) ==
    /\ last.op = "mkdir"
    /\ last.phase = "returned"
    /\ last.args.parents = parents
    /\ last.args.exist_ok = exist_ok

RaisedExc(e) == last.out.status = "raised" /\ last.out.exc = e

\* mkdir raised FileExistsError for its path after the one call of the given kind.
FileExistsAfterOnly(kind) ==
    /\ RaisedExc(FileExistsExc(Description(last.self)))
    /\ Kinds = <<kind>>
    /\ fs = last.before

\* C1: mkdir with exist_ok=False on a path that already exists raises
\* FileExistsError for the path, whatever parents is.  With parents=False the
\* only call is make_dir (make_parents=False) and its "file exists" error is
\* what is translated; with parents=True the lookup that finds the path is the
\* only call, and make_dir is never called.
C1_MkdirExistingFileExists ==
    /\ (/\ MkdirDone(FALSE, FALSE)
        /\ last.calls[1].err = PebbleFileExists)
       => FileExistsAfterOnly("make_dir") /\ ~last.calls[1].flag
    /\ (MkdirDone(FALSE, FALSE) /\ ExistedBefore(last.self.path) /\ NoFault)
       => FileExistsAfterOnly("make_dir") /\ last.calls[1].err = PebbleFileExists
    /\ (MkdirDone(TRUE, FALSE) /\ last.calls[1].look = "ok")
       => FileExistsAfterOnly("lookup")
    /\ (MkdirDone(TRUE, FALSE) /\ ExistedBefore(last.self.path) /\ NoFault)
       => FileExistsAfterOnly("lookup") /\ last.calls[1].path = last.self.path

C1_Witness ==
    /\ MkdirDone(TRUE, FALSE)
    /\ TypeOf(last.before, last.self.path) = "file"
    /\ NoFault
    /\ FileExistsAfterOnly("lookup")

\* mkdir raised FileNotFoundError for the parent after one lookup of the parent.
MissingParentReported ==
    /\ RaisedExc(FileNotFoundExc(Description(ParentOf(last.self))))
    /\ last.out.exc.desc.path = Parent(last.self.path)
    /\ Kinds = <<"lookup">>
    /\ last.calls[1].path = Parent(last.self.path)
    /\ fs = last.before

\* C2: mkdir(parents=False, exist_ok=True) on a path whose parent does not exist
\* (the lookup of the parent finds nothing, or fails with ELOOP) raises
\* FileNotFoundError whose description names the parent; the lookup is the only
\* call, make_dir is not called and the tree is unchanged.
C2_MkdirMissingParentNotFound ==
    /\ (/\ MkdirDone(FALSE, TRUE)
        /\ last.calls[1].look \in {"FileNotFoundError", "ELOOP"})
       => MissingParentReported
    /\ (MkdirDone(FALSE, TRUE) /\ ~ExistedBefore(Parent(last.self.path)) /\ NoFault)
       => MissingParentReported

C2_Witness ==
    /\ MkdirDone(FALSE, TRUE)
    /\ ~ExistedBefore(Parent(last.self.path))
    /\ NoFault
    /\ MissingParentReported
    /\ last.out.exc.desc.path # last.self.path

\* C3 as claimed: mkdir(parents=True, exist_ok=True) on an already-existing
\* path, the endpoint answering for the tree, calls make_dir with
\* make_parents=True and nothing else, and raises nothing, whatever is at the
\* path.
C3_MkdirExistOkNeverRaises ==
    (MkdirDone(TRUE, TRUE) /\ ExistedBefore(last.self.path) /\ NoFault)
    => /\ last.out.status = "ok"
       /\ Kinds = <<"make_dir">>
       /\ last.calls[1].flag

\* C3 amended: mkdir(parents=True, exist_ok=True) makes no lookup first: its
\* first call is make_dir with make_parents=True.  On a directory that is
\* already there it is the only call and nothing is raised; on a path that is
\* there and is no directory the endpoint's "not a directory" error becomes,
\* after the lookup of the parent, FileExistsError for the path.
C3_MkdirExistOkDirectory ==
    MkdirDone(TRUE, TRUE)
    => /\ last.calls[1].kind = "make_dir"
       /\ last.calls[1].flag
       /\ last.calls[1].path = last.self.path
       /\ (TypeOf(last.before, last.self.path) = "directory" /\ NoFault)
          => last.out.status = "ok" /\ Kinds = <<"make_dir">> /\ fs = last.before
       /\ (/\ TypeOf(last.before, last.self.path) \notin {"absent", "directory"}
           /\ NoFault)
          => /\ RaisedExc(FileExistsExc(Description(last.self)))
             /\ Kinds = <<"make_dir", "lookup">>

C3_Witness ==
    /\ MkdirDone(TRUE, TRUE)
    /\ TypeOf(last.before, last.self.path) = "directory"
    /\ last.self.path # <<>>
    /\ NoFault
    /\ last.out.status = "ok"

\* make_dir of a finished mkdir failed with "not a directory" (and no lookup
\* failure), and the lookup of the parent that follows was answered.
NotADirectoryCase ==
    /\ last.op = "mkdir"
    /\ last.phase = "returned"
    /\ Len(last.calls) >= 2
    /\ LET m == last.calls[Len(last.calls) - 1]
           c == last.calls[Len(last.calls)]
       IN  /\ m.kind = "make_dir"
           /\ MatchesNotADirectory(m.err)
           /\ ~MatchesLookup(m.err)
           /\ c.kind = "lookup"
           /\ c.look \in {"ok", "FileNotFoundError", "ELOOP"}

ParentWasDirectory ==
    LET c == last.calls[Len(last.calls)]
    IN  c.look = "ok" /\ c.ftype = "directory"

\* C4 as claimed: after the "not a directory" error of make_dir, mkdir raises
\* NotADirectoryError naming the parent if the parent is not a directory, and
\* FileExistsError naming the path otherwise.
C4_NotADirectoryNamesParent ==
    NotADirectoryCase
    => IF ParentWasDirectory
       THEN RaisedExc(FileExistsExc(Description(last.self)))
       ELSE RaisedExc(NotADirectoryExc(Description(ParentOf(last.self))))

\* C4 amended: after the "not a directory" error of make_dir (one that is not a
\* lookup failure, which is tried first), mkdir looks the parent up: if the
\* parent is not a directory it raises NotADirectoryError whose description
\* names the path mkdir was called on; otherwise FileExistsError naming that
\* path.  An error of that lookup other than not-found and ELOOP propagates.
C4_NotADirectoryNamesTarget ==
    /\ NotADirectoryCase
       => /\ last.calls[Len(last.calls)].path = Parent(last.self.path)
          /\ IF ParentWasDirectory
             THEN RaisedExc(FileExistsExc(Description(last.self)))
             ELSE RaisedExc(NotADirectoryExc(Description(last.self)))
    /\ (/\ last.op = "mkdir"
        /\ last.phase = "returned"
        /\ Len(last.calls) >= 1
        /\ last.calls[Len(last.calls)].kind = "make_dir"
        /\ MatchesNotADirectory(last.calls[Len(last.calls)].err))
       => /\ MatchesLookup(last.calls[Len(last.calls)].err)
          /\ RaisedExc(TextExc("LookupError", last.calls[Len(last.calls)].err.phrases))
    /\ (/\ last.op = "mkdir"
        /\ last.phase = "returned"
        /\ Len(last.calls) >= 2
        /\ last.calls[Len(last.calls) - 1].kind = "make_dir"
        /\ last.calls[Len(last.calls)].look
              \in {"OSError", "PermissionError", "PathError", "ConnectionError"})
       => RaisedExc(LookupFaultExc(last.calls[Len(last.calls)].look, ParentOf(last.self)))

C4_Witness ==
    /\ NotADirectoryCase
    /\ ~ParentWasDirectory
    /\ NoFault
    /\ last.self.path # Parent(last.self.path)
    /\ RaisedExc(NotADirectoryExc(Description(last.self)))

\* C5 as claimed: iterdir checks at the call, so a call of iterdir that gave
\* its generator back without an exception was made on a directory.
C5_IterdirChecksAtCall ==
    (last.op = "iterdir" /\ last.phase = "generator")
    => TypeOf(fs, last.self.path) = "directory"

GlobDone == last.op = "glob" /\ last.phase = "exhausted"
RaisedText(type, text) ==
    last.out.status = "raised" /\ last.out.exc.type = type /\ last.out.exc.text = text
RejectedForDoubleStar ==
    \/ RaisedText("NotImplementedError", RecursiveGlobText)
    \/ RaisedText("ValueError", InvalidPatternText)

\* "**" stands at i in the pattern s.
DoubleStarAt(s, i) == i + 1 <= Len(s) /\ s[i] = "*" /\ s[i + 1] = "*"
\* s has "**" as a whole component that a later component follows.
WholeIntermediate(s) ==
    \E i \in 1..Len(s) :
        /\ DoubleStarAt(s, i)
        /\ (i = 1 \/ s[i - 1] = "/")
        /\ i + 2 <= Len(s)
        /\ s[i + 2] = "/"
        /\ \E j \in (i + 3)..Len(s) : s[j] # "/"
\* s has "**" inside a longer component.
ProperSubstring(s) ==
    \E i \in 1..Len(s) :
        /\ DoubleStarAt(s, i)
        /\ \/ (i > 1 /\ s[i - 1] # "/")
           \/ (i + 2 <= Len(s) /\ s[i + 2] # "/")
HasDoubleStar(s) == \E i \in 1..Len(s) : DoubleStarAt(s, i)

\* C6 as claimed: a whole intermediate "**" gives NotImplementedError, "**"
\* inside a longer component gives ValueError, no other pattern is rejected
\* for its "**", and a rejected glob has called nothing.
C6_OnlyTwoShapesRejected ==
    GlobDone
    => /\ WholeIntermediate(last.args.pattern)
          => RaisedText("NotImplementedError", RecursiveGlobText)
       /\ (ProperSubstring(last.args.pattern) /\ ~WholeIntermediate(last.args.pattern))
          => RaisedText("ValueError", InvalidPatternText)
       /\ RejectedForDoubleStar
          => /\ WholeIntermediate(last.args.pattern) \/ ProperSubstring(last.args.pattern)
             /\ last.calls = <<>>

\* C6 amended: a pattern with "**" as a whole intermediate component gives
\* NotImplementedError; every other pattern that holds "**" anywhere, a
\* final whole component "**" included, gives ValueError; a pattern without
\* "**" gives neither; a rejected glob has called nothing and changed nothing.
C6_EveryDoubleStarRejected ==
    GlobDone
    => /\ WholeIntermediate(last.args.pattern)
          => RaisedText("NotImplementedError", RecursiveGlobText)
       /\ (HasDoubleStar(last.args.pattern) /\ ~WholeIntermediate(last.args.pattern))
          => RaisedText("ValueError", InvalidPatternText)
       /\ RejectedForDoubleStar
          => /\ HasDoubleStar(last.args.pattern)
             /\ last.calls = <<>>
             /\ fs = last.before

C6_Witness ==
    /\ GlobDone
    /\ last.args.pattern = <<"a", "/", "*", "*">>
    /\ RaisedText("ValueError", InvalidPatternText)
    /\ last.calls = <<>>

\* C7 as claimed: a finished operation has made at most one endpoint call.
C7_AtMostOneCall == Finished => Len(last.calls) <= 1

SingleCallOps ==
    {"read_text", "read_bytes", "write_bytes", "write_text", "owner", "group",
     "exists", "is_dir", "is_file", "is_fifo", "is_socket"}

\* C7 amended: read_text, read_bytes, write_bytes, write_text, owner, group,
\* exists and the is_* methods make at most one endpoint call, and so does glob
\* with a one-component pattern; iterdir makes a lookup and then at most one
\* list_files; mkdir makes at most one make_dir, after a lookup when exactly
\* one of parents and exist_ok is set, and before a lookup of the parent when
\* make_dir failed with "not a directory": three calls at most.  glob with
\* more components is not held to a fixed number of calls.
C7_CallsPerOperation ==
    Finished
    => /\ last.op \in SingleCallOps => Len(last.calls) <= 1
       /\ last.op = "iterdir"
          => Kinds \in {<<"lookup">>, <<"lookup", "list_files">>}
       /\ last.op = "mkdir"
          => /\ Kinds \in {<<"lookup">>, <<"make_dir">>, <<"lookup", "make_dir">>,
                           <<"make_dir", "lookup">>, <<"lookup", "make_dir", "lookup">>}
             /\ (last.args.parents = last.args.exist_ok) => Kinds[1] = "make_dir"
       /\ (last.op = "glob" /\ Len(PartsOf(last.args.pattern)) <= 1)
          => Len(last.calls) <= 1

C7_Witness ==
    /\ last.op = "mkdir"
    /\ last.phase = "returned"
    /\ Kinds = <<"lookup", "make_dir", "lookup">>

ReadDone == last.op \in {"read_text", "read_bytes"} /\ last.phase = "returned"
ReadMatchesNoRule(e) ==
    ~MatchesFileNotFound(e) /\ ~MatchesIsADirectory(e) /\ ~MatchesPermission(e)
NotFoundForReceiver ==
    /\ RaisedExc(FileNotFoundExc(Description(last.self)))
    /\ last.out.exc.desc.path = last.self.path
    /\ last.out.exc.desc.container = ContainerName

\* C8 as claimed: a read whose pull fails with an error of status code 404 or
\* of kind 'not-found' raises FileNotFoundError with the path and the container
\* in its description; an error matching no rule of read is raised as it is.
C8_ReadNotFoundEveryShape ==
    (ReadDone /\ last.calls[1].err # NoRaw)
    => /\ MatchesFileNotFound(last.calls[1].err) => NotFoundForReceiver
       /\ ReadMatchesNoRule(last.calls[1].err) => RaisedExc(RawExc(last.calls[1].err))

\* C8 amended: read translates only a PathError.  A PathError of kind
\* 'not-found' raises FileNotFoundError with the path and the container in its
\* description; a pebble error of another class, an APIError of code 404
\* included, and a PathError matching no rule of read are raised as they are.
C8_ReadNotFoundPathErrorOnly ==
    (ReadDone /\ last.calls[1].err # NoRaw)
    => LET e == last.calls[1].err
       IN  /\ Kinds = <<"pull">>
           /\ (e.cls = "PathError" /\ e.kind = "not-found") => NotFoundForReceiver
           /\ e.cls # "PathError" => RaisedExc(RawExc(e))
           /\ ReadMatchesNoRule(e) => RaisedExc(RawExc(e))

C8_Witness ==
    /\ ReadDone
    /\ last.calls[1].err = PebbleNotFound
    /\ NotFoundForReceiver

TranslatedTypes ==
    {"FileNotFoundError", "FileExistsError", "PermissionError", "IsADirectoryError",
     "NotADirectoryError", "LookupError"}
Translated == Finished /\ last.out.status = "raised" /\ last.out.exc.type \in TranslatedTypes
NamesContainer(e) ==
    e.desc.kind = "description" /\ e.desc.container = last.self.container

\* C9 as claimed: every exception of the six translated types carries a
\* description with a path and the name of the container.
C9_EveryErrorDescribed == Translated => NamesContainer(last.out.exc)

\* C9 amended: an exception of the translated types other than LookupError
\* carries a description with the name of the container and a path: the
\* receiver's, or its parent's when it comes from a lookup of the parent in
\* mkdir (a glob may name a path it visited).  LookupError carries the
\* message of the endpoint's error and no description.
C9_ErrorDescribedButLookup ==
    Translated
    => IF last.out.exc.type = "LookupError"
       THEN /\ last.op \in {"write_bytes", "write_text", "mkdir"}
            /\ last.out.exc.desc = NoDesc
            /\ last.out.exc.text = last.calls[Len(last.calls)].err.phrases
       ELSE /\ NamesContainer(last.out.exc)
            /\ last.op # "glob"
               => \/ last.out.exc.desc.path = last.self.path
                  \/ /\ last.op = "mkdir"
                     /\ last.calls[Len(last.calls)].kind = "lookup"
                     /\ last.calls[Len(last.calls)].path = Parent(last.self.path)
                     /\ last.out.exc.desc.path = Parent(last.self.path)

C9_Witness ==
    /\ last.op = "write_bytes"
    /\ last.phase = "returned"
    /\ last.out.status = "raised"
    /\ last.out.exc.type = "LookupError"
    /\ last.out.exc.desc = NoDesc
    /\ "unknown user/group" \in last.out.exc.text

RequestedType ==
    [exists |-> None, is_dir |-> "directory", is_file |-> "file",
     is_fifo |-> "named-pipe", is_socket |-> "socket"]
TypeTestDone == last.op \in DOMAIN RequestedType /\ last.phase = "returned"

\* C10: exists, is_dir, is_file, is_fifo and is_socket make one lookup of their
\* path.  A lookup that finds nothing gives False, and so does one that fails
\* with ELOOP; any other error of the lookup is raised to the caller; after a
\* lookup that succeeds, exists gives True and is_* gives whether the type
\* found is the type asked for.  The tree is not changed.
C10_TypeTests ==
    TypeTestDone
    => LET c == last.calls[1]
       IN  /\ Kinds = <<"lookup">>
           /\ c.path = last.self.path
           /\ fs = last.before
           /\ c.look \in {"FileNotFoundError", "ELOOP"} => last.out = Ok(FALSE)
           /\ c.look \in {"OSError", "PermissionError", "PathError", "ConnectionError"}
              => last.out = Raised(LookupFaultExc(c.look, last.self))
           /\ c.look = "ok"
              => last.out = Ok(\/ last.op = "exists"
                               \/ c.ftype = RequestedType[last.op])
           /\ (~c.faulted /\ TypeOf(last.before, last.self.path) = "absent")
              => last.out = Ok(FALSE)

C10_Witness ==
    /\ TypeTestDone
    /\ last.op = "is_dir"
    /\ last.calls[1].look = "ELOOP"
    /\ last.out = Ok(FALSE)

\* The path of an object as a string begins with "/".
HoldsAbsolute(obj) ==
    LET str == JoinParts(obj.path) IN str # <<>> /\ str[1] = "/"
\* No segment begins with "/": the segments join to a relative path.
JoinRelative(segs) == \A k \in 1..Len(segs) : segs[k] = <<>> \/ segs[k][1] # "/"
TransformOps ==
    {"with_segments", "truediv", "joinpath", "with_name", "with_suffix", "parent",
     "parents", "yield"}
MadeByStep == (step.held + 1)..Len(live)

\* C11: every ContainerPath the caller holds has an absolute path.  A
\* transform (joinpath, /, with_name, with_suffix, parent, parents,
\* with_segments, a path yielded by iterdir or glob) leaves its receiver as it
\* was and gives every object it makes the receiver's container; when it
\* raises it makes no object.  A construction (and with_segments) from
\* segments that join to a relative path raises RelativePathError and makes no
\* object, and from other segments it makes one object.
C11_AbsoluteSameContainer ==
    /\ \A i \in 1..Len(live) : HoldsAbsolute(live[i]) /\ live[i].container \in Containers
    /\ step.op \in TransformOps
       => /\ live[step.recv] = step.was
          /\ \A k \in MadeByStep : live[k].container = step.was.container
          /\ step.exc \in {"", "RelativePathError", "ValueError"}
          /\ step.exc # "" => Len(live) = step.held
    /\ step.op \in {"construct", "with_segments"}
       => IF JoinRelative(step.segs)
          THEN step.exc = "RelativePathError" /\ Len(live) = step.held
          ELSE step.exc = "" /\ Len(live) = step.held + 1

C11_Witness ==
    /\ step.op = "truediv"
    /\ step.exc = ""
    /\ Len(live) = 2
    /\ step.recv = 1
    /\ live[1].container = "sidecar"
    /\ live[2].container = "sidecar"
    /\ live[2].path = Append(live[1].path, <<"a">>)

WriteDone == last.op \in {"write_bytes", "write_text"} /\ last.phase = "returned"

\* The number of bytes of the UTF-8 encoding of a text.
RECURSIVE Utf8Len(_)
Utf8Len(text) ==
    IF text = <<>> THEN 0
    ELSE (IF Head(text) = "e-acute" THEN 2 ELSE 1) + Utf8Len(Tail(text))

\* The number of bytes the data given to the write holds.
BytesGiven ==
    IF last.op = "write_text" THEN Utf8Len(last.args.data)
    ELSE Len(last.args.data.items) * last.args.data.itemsize

\* C12: write_bytes and write_text make at most one endpoint call, a push to
\* their path with make_dirs=False.  When they succeed that push is their
\* only call, the value returned is the number of bytes given to push, which
\* is the number of bytes the data holds (of its UTF-8 encoding for
\* write_text; of all its items for a bytearray or a memoryview), and no path
\* of the tree but the one written has changed: no parent directory is made.
\* With the parent missing the write fails and the tree is unchanged, and the
\* push, when it is reached and answers for the tree, gives FileNotFoundError.
C12_WriteReturnsBytesPushed ==
    WriteDone
    => /\ Len(last.calls) <= 1
       /\ \A i \in 1..Len(last.calls) :
             /\ last.calls[i].kind = "push"
             /\ last.calls[i].path = last.self.path
             /\ ~last.calls[i].flag
       /\ last.out.status = "ok"
          => /\ Kinds = <<"push">>
             /\ last.out.value = Len(last.calls[1].source)
             /\ last.out.value = BytesGiven
             /\ \A p \in NodePaths \ {last.self.path} : fs[p] = last.before[p]
             /\ TypeOf(last.before, Parent(last.self.path)) = "directory"
       /\ TypeOf(last.before, Parent(last.self.path)) = "absent"
          => /\ last.out.status = "raised"
             /\ fs = last.before
             /\ (Kinds = <<"push">> /\ NoFault)
                => RaisedExc(FileNotFoundExc(Description(last.self)))

C12_Witness ==
    /\ WriteDone
    /\ last.op = "write_bytes"
    /\ last.args.data.kind = "memoryview"
    /\ last.args.data.itemsize = 2
    /\ Len(last.args.data.items) = 2
    /\ last.out = Ok(4)
    /\ Kinds = <<"push">>

====
